---- MODULE Spec2Model ----
(***************************************************************************)
(* pmkit: the reconnecting WebSocket transport (websocket/base.py), the    *)
(* Predict.fun subscription layer and heartbeat on top of it, the Kalshi   *)
(* and Polymarket order-book mirrors, the Polymarket user socket, and the  *)
(* life cycle of BaseBot (bot/base.py).                                    *)
(*                                                                         *)
(* Every `await` of the Python code is a point where another coroutine of  *)
(* the event loop may run; the code between two awaits is one action.      *)
(* Python >= 3.8 is assumed: asyncio.CancelledError is a BaseException and *)
(* is not caught by `except Exception`.                                    *)
(***************************************************************************)
EXTENDS Integers, Sequences, FiniteSets, TLC

\* ------------------------------------------------------------------ bounds
MaxTasks == 2     \* connect-loop task objects alive or referenced at once
MaxFrames == 2    \* inbound frames per connection
MaxMarkets == 2   \* Predict.fun market ids
MaxFails == 6     \* failures counted in one run of failures (saturating)
MaxConnects == 2  \* Kalshi connect() calls that reach the handshake
MaxMsgs == 3      \* frames a Kalshi client takes from its streams
MaxSends == 2     \* send() calls on one client
MaxPings == 2     \* unanswered pings counted on one connection
MaxBeats == 2     \* heartbeat loops left behind by earlier connections
MaxSignals == 2   \* shutdown signals delivered to one bot
MaxIters == 3     \* iterations of the main loop of a bot

\* ------------------------------------------------------- program constants
INITIAL_RETRY_DELAY == 1
MAX_RETRY_DELAY == 30
BACKOFF_MULTIPLIER == 2
WAIT_TIMEOUT == 5
None == 0

Tasks == 1..MaxTasks
Markets == 1..MaxMarkets
\* self._ws holding a connection object that no task is inside any more
Stale == MaxTasks + 1

Min(a, b) == IF a <= b THEN a ELSE b

VARIABLES
  \* BaseWebSocket fields
  running,      \* self.running
  task,         \* self._task: a task id or None
  ws,           \* self._ws: None, the connection of task t, or Stale
  retry_delay,  \* self._retry_delay
  \* the _run() coroutine of each task object
  tpc,          \* where the task is suspended
  twait,        \* the argument of its pending asyncio.sleep
  subIdx,       \* position of the `for market_id in self._subscribed` iterator
  \* the connection task t is inside (`async with ... as ws`)
  connState,    \* "none" | "open" | "closed_ok" | "closed_err"
  inbox,        \* frames received and not yet handed to `async for`
  arrivedN,     \* number of frames that arrived on the connection
  delivered,    \* frames passed to _process_message, in order
  ndone,        \* number of _process_message calls that returned
  srvSub,       \* markets the peer holds subscribed on the connection
  subFrames,    \* subscribe frames sent on the connection, per market
  \* the disconnect() coroutine
  dpc,          \* "idle" | "closing" | "waiting" | "cancelling"
  dtask,        \* the task object handed to asyncio.wait_for
  \* Predict.fun OrderbookWebSocket
  subscribed,   \* self._subscribed, a list without duplicates
  \* bookkeeping of the backoff sequence
  fails,        \* failures handled since the last success or connect()
  lastWait,     \* the delay slept for the last of them
  \* bookkeeping of the stop
  dWhen,        \* where the loop stood at the last disconnect(): "never" before
                \* the first call, "nothing" when there was no task
  \* bookkeeping of send()
  sendLog,      \* what became of each send() call, in order
  \* bookkeeping of the frames
  handledKinds, \* the kinds of the frames handled on the connection of each task
  \* the heartbeat of the Predict.fun client
  pings         \* pings sent on the connection of each task and not answered

tvars == <<running, task, ws, retry_delay, tpc, twait, subIdx,
           connState, inbox, arrivedN, delivered, ndone, srvSub, subFrames,
           dpc, dtask, subscribed, fails, lastWait, dWhen, sendLog,
           handledKinds, pings>>

\* Kalshi OrderbookWebSocket (exchanges/kalshi/orderbook_ws.py)
VARIABLES
  k_running,     \* self._running
  k_ws,          \* self._ws: None or the connection made by the i-th connect()
  k_task,        \* self._task: None or the task made by the i-th connect()
  k_orderbooks,  \* self._orderbooks: ticker -> {"yes": {price: qty}, "no": {...}}
  k_prices,      \* self._prices: ticker -> the eight best-price fields
  kOnUpdate,     \* the on_update given to __init__: "none" | "sync" | "async"
  kcall,         \* the caller: "idle" | "handshake" | "subscribing" | "closing"
  kconn,         \* state of each connection
  ktpc,          \* each _handle_messages task: "unborn" | "recv" | "stopped" | "ended"
  kPending,      \* callback coroutines wrapped by create_task and not yet run
  kClosed,       \* close() has returned and connect() was not called since
  kLate,         \* a callback ran while kClosed
  kmsgs,         \* frames taken from the stream so far
  kLastMsg,      \* the last frame handed to _process_message
  kRaised,       \* a connect() call ended with an exception
  kDup           \* the last frame handled was the same as the one before it

kvars == <<k_running, k_ws, k_task, k_orderbooks, k_prices, kOnUpdate, kcall,
           kconn, ktpc, kPending, kClosed, kLate, kmsgs, kLastMsg, kRaised,
           kDup>>

\* Polymarket OrderbookWebSocket (exchanges/polymarket/orderbook_ws.py)
VARIABLES
  p_bids,        \* self.bids: token id -> best bid
  p_asks,        \* self.asks: token id -> best ask
  p_bid_sizes,   \* self.bid_sizes: token id -> size at the best bid
  p_ask_sizes,   \* self.ask_sizes: token id -> size at the best ask
  pmsgs,         \* frames handled so far
  pLastMsg,      \* the last frame given to _handle_message
  pOnUpdate,     \* the on_update given to connect(): "none" | "sync" | "async"
  ppc,           \* where _handle_message stands: "idle" | "bids" | "asks" | "callback"
  pCur,          \* the frame _handle_message is working on
  pSeen,         \* what the last get_bid_ask() of another task returned
  pHist,         \* the (bids, asks) states left by the completed mutation steps
  pConnAt,       \* how many frames had been handled when the connection came up
  pDup           \* the last frame handled was the same as the one before it

prvars == <<pOnUpdate, ppc, pCur, pSeen, pHist, pConnAt>>

pvars == <<p_bids, p_asks, p_bid_sizes, p_ask_sizes, pmsgs, pLastMsg, prvars,
           pDup>>

\* Polymarket UserWebSocket (exchanges/polymarket/user_ws.py)
VARIABLES
  u_on_fill,     \* self._on_fill: "none" or "set"
  u_running,     \* self.running of the user socket
  uRaised        \* a connect() call of the user socket ended with an exception

uvars == <<u_on_fill, u_running, uRaised>>

\* the heartbeat tasks of the Predict.fun OrderbookWebSocket
VARIABLES
  hbCur,         \* self._heartbeat_task refers to a heartbeat loop that is alive
  hbOld          \* heartbeat loops alive that self._heartbeat_task does not refer to

hvars == <<hbCur, hbOld>>

\* error handling of the Polymarket OrderbookWebSocket
VARIABLES
  pRaised        \* the handling of the last frame ended in an exception

evars == <<pRaised>>

\* BaseBot (bot/base.py)
VARIABLES
  b_running,     \* self._running
  bpc,           \* where run() stands: "idle" | "setup" | "rollover" | "tick" |
                 \*   "sleep" | "errsleep" | "returned"
  sigpc,         \* the stop() task of each signal: "none" | "pending" | "cleanup" | "done"
  bCleanStarted, \* calls of _cleanup
  bCleanDone,    \* calls of _cleanup that have returned
  bIters         \* iterations of the main loop begun so far

bvars == <<b_running, bpc, sigpc, bCleanStarted, bCleanDone, bIters>>

xvars == <<uvars, hvars, evars, bvars>>

vars == <<tvars, kvars, pvars, xvars>>

\* ------------------------------------------------------------- helpers

\* self._ws is not None and self._ws.open   (is_connected, and the guard of
\* _send_subscribe / unsubscribe)
IsConnected == ws \in Tasks /\ connState[ws] = "open"

SeqToSet(s) == {s[i] : i \in 1..Len(s)}

RemoveAt(s, i) == SubSeq(s, 1, i - 1) \o SubSeq(s, i + 1, Len(s))

\* list.remove(x): drops the first occurrence
ListRemove(s, x) ==
  LET i == CHOOSE j \in 1..Len(s) : s[j] = x /\ \A k \in 1..(j - 1) : s[k] # x
  IN  RemoveAt(s, i)

\* a task object neither self._task nor disconnect() holds and that is not running
TaskFree(t) == tpc[t] \in {"unborn", "done"} /\ task # t /\ ~(dpc # "idle" /\ dtask = t)
FreeTask == CHOOSE t \in Tasks : TaskFree(t) /\ \A u \in Tasks : TaskFree(u) => t <= u

\* a task that is inside `async with websockets.connect(...)`
Inside(t) == tpc[t] \in {"on_connect", "recv", "handling"}

\* min(self._retry_delay * BACKOFF_MULTIPLIER, MAX_RETRY_DELAY)
NextDelay(d) == Min(d * BACKOFF_MULTIPLIER, MAX_RETRY_DELAY)

NoFrames == [m \in Markets |-> 0]

\* ---------------------------------------------------------------- Init
TInit ==
  /\ running = FALSE
  /\ task = None
  /\ ws = None
  /\ retry_delay = INITIAL_RETRY_DELAY
  /\ tpc = [t \in Tasks |-> "unborn"]
  /\ twait = [t \in Tasks |-> 0]
  /\ subIdx = [t \in Tasks |-> 1]
  /\ connState = [t \in Tasks |-> "none"]
  /\ inbox = [t \in Tasks |-> <<>>]
  /\ arrivedN = [t \in Tasks |-> 0]
  /\ delivered = [t \in Tasks |-> <<>>]
  /\ ndone = [t \in Tasks |-> 0]
  /\ srvSub = [t \in Tasks |-> {}]
  /\ subFrames = [t \in Tasks |-> NoFrames]
  /\ dpc = "idle"
  /\ dtask = None
  /\ subscribed = <<>>
  /\ fails = 0
  /\ lastWait = 0
  /\ dWhen = "never"
  /\ sendLog = <<>>
  /\ handledKinds = [t \in Tasks |-> << >>]
  /\ pings = [t \in Tasks |-> 0]

\* ------------------------------------------------ BaseWebSocket._run pieces

\* the index of a failure in the current run of failures, saturating: from
\* the MaxFails-th failure on the delay is MAX_RETRY_DELAY anyway
FailIndex == Min(fails + 1, MaxFails)

\* task t leaves `async with websockets.connect(...) as ws` (normally, by an
\* exception or by cancellation): the library closes the connection, and
\* self._ws, if it is this connection, now names a closed object
DropConn(t) ==
  /\ connState' = [connState EXCEPT ![t] = "none"]
  /\ inbox' = [inbox EXCEPT ![t] = <<>>]
  /\ arrivedN' = [arrivedN EXCEPT ![t] = 0]
  /\ delivered' = [delivered EXCEPT ![t] = <<>>]
  /\ ndone' = [ndone EXCEPT ![t] = 0]
  /\ srvSub' = [srvSub EXCEPT ![t] = {}]
  /\ subFrames' = [subFrames EXCEPT ![t] = NoFrames]

WsAfterDrop(t) == IF ws = t THEN Stale ELSE ws

\* a loop test that would not look at self.running
LoopTop_Always(t) ==
  /\ tpc' = [tpc EXCEPT ![t] = "connecting"]
  /\ ws' = WsAfterDrop(t)

\* `while self.running:` evaluated by task t, which is outside the
\* `async with`: another attempt, or fall out of the loop to `self._ws = None`
LoopTop(t) ==
  IF running
  THEN /\ tpc' = [tpc EXCEPT ![t] = "connecting"]
       /\ ws' = WsAfterDrop(t)
  ELSE /\ tpc' = [tpc EXCEPT ![t] = "done"]
       /\ ws' = None

\* an `except` clause of _run: `if self.running: await self._wait_and_backoff()`,
\* which starts asyncio.sleep(self._retry_delay); otherwise back to the loop test
OnFailure(t) ==
  IF running
  THEN /\ tpc' = [tpc EXCEPT ![t] = "sleeping"]
       /\ twait' = [twait EXCEPT ![t] = retry_delay]
       /\ fails' = FailIndex
       /\ lastWait' = retry_delay
       /\ ws' = WsAfterDrop(t)
  ELSE /\ tpc' = [tpc EXCEPT ![t] = "done"]
       /\ ws' = None
       /\ UNCHANGED <<twait, fails, lastWait>>

\* _send_subscribe(m): one subscribe frame on self._ws when it is open
SubFramesAfterSend(m) ==
  IF IsConnected
  THEN [subFrames EXCEPT ![ws][m] = Min(@ + 1, 2)]
  ELSE subFrames

SrvSubAfterSend(m) ==
  IF IsConnected THEN [srvSub EXCEPT ![ws] = @ \cup {m}] ELSE srvSub

\* ------------------------------------------------------------- actions

\* BaseWebSocket.connect() on a client that is already running
ConnectAlready ==
  /\ running
  /\ UNCHANGED vars
  /\ UNCHANGED <<xvars, kvars, pvars>>

\* BaseWebSocket.connect() on a stopped client
ConnectStart ==
  /\ ~running
  /\ \E t \in Tasks : TaskFree(t)
  /\ running' = TRUE
  /\ retry_delay' = INITIAL_RETRY_DELAY
  /\ task' = FreeTask
  /\ tpc' = [tpc EXCEPT ![FreeTask] = "connecting"]
  /\ twait' = [twait EXCEPT ![FreeTask] = 0]
  /\ subIdx' = [subIdx EXCEPT ![FreeTask] = 1]
  /\ fails' = 0
  /\ lastWait' = 0
  /\ UNCHANGED <<ws, connState, inbox, arrivedN, delivered, ndone, srvSub,
                 subFrames, dpc, dtask, subscribed>>
  /\ UNCHANGED <<xvars, kvars, pvars, dWhen, sendLog, handledKinds, pings>>

\* websockets.connect succeeds in task t: self._ws = ws, the delay is reset,
\* and _on_connect runs up to its first awaited send
ConnectOKT(t) ==
  /\ tpc[t] = "connecting"
  /\ LET first == Len(subscribed) >= 1
     IN  /\ connState' = [connState EXCEPT ![t] = "open"]
         /\ ws' = t
         /\ retry_delay' = INITIAL_RETRY_DELAY
         /\ fails' = 0
         /\ lastWait' = 0
         /\ subFrames' = [subFrames EXCEPT ![t] =
                            [m \in Markets |-> IF first /\ m = subscribed[1] THEN 1 ELSE 0]]
         /\ srvSub' = [srvSub EXCEPT ![t] = IF first THEN {subscribed[1]} ELSE {}]
         /\ subIdx' = [subIdx EXCEPT ![t] = IF first THEN 2 ELSE 1]
         /\ tpc' = [tpc EXCEPT ![t] = IF first THEN "on_connect" ELSE "recv"]
         /\ handledKinds' = [handledKinds EXCEPT ![t] = << >>]
         /\ pings' = [pings EXCEPT ![t] = 0]
  /\ UNCHANGED <<running, task, twait, inbox, arrivedN, delivered, ndone, dpc,
                 dtask, subscribed, dWhen, sendLog>>

ConnectOK(t) == ConnectOKT(t) /\ UNCHANGED <<xvars, kvars, pvars>>

\* websockets.connect raises in task t (refused, timed out, bad handshake)
ConnectFail(t) ==
  /\ tpc[t] = "connecting"
  /\ OnFailure(t)
  /\ UNCHANGED <<running, task, retry_delay, subIdx, connState, inbox,
                 arrivedN, delivered, ndone, srvSub, subFrames, dpc, dtask,
                 subscribed>>
  /\ UNCHANGED <<xvars, kvars, pvars, dWhen, sendLog, handledKinds, pings>>

\* _on_connect resumes after a send: the list iterator yields the next market
\* and _send_subscribe is awaited, or the list is exhausted and the task
\* enters `async for message in ws`
OnConnectNext(t) ==
  /\ tpc[t] = "on_connect"
  /\ IF subIdx[t] <= Len(subscribed)
     THEN /\ subFrames' = SubFramesAfterSend(subscribed[subIdx[t]])
          /\ srvSub' = SrvSubAfterSend(subscribed[subIdx[t]])
          /\ subIdx' = [subIdx EXCEPT ![t] = @ + 1]
          /\ tpc' = tpc
     ELSE /\ tpc' = [tpc EXCEPT ![t] = "recv"]
          /\ subIdx' = [subIdx EXCEPT ![t] = 1]
          /\ UNCHANGED <<subFrames, srvSub>>
  /\ UNCHANGED <<running, task, ws, retry_delay, twait, connState, inbox,
                 arrivedN, delivered, ndone, dpc, dtask, subscribed, fails,
                 lastWait>>
  /\ UNCHANGED <<xvars, kvars, pvars, dWhen, sendLog, handledKinds, pings>>

\* the frame `async for message in ws` hands over next, and what stays queued
TakeFrame(q) == Head(q)
\* a loop that would leave the frame it took at the head of the stream
RestFrames_Keep(q) == q
RestFrames(q) == Tail(q)

\* a loop that would read frames while _on_connect is still awaited
CanDispatch_Early(pc) == pc \in {"recv", "on_connect"}

\* where the task must stand to take a frame: in `async for message in ws`,
\* which _run enters only after `await self._on_connect(ws)` has returned
CanDispatch(pc) == pc = "recv"

\* `async for` yields a frame and the task runs on to
\* `await self._process_message(message)`
RecvDispatch(t) ==
  /\ CanDispatch(tpc[t])
  /\ inbox[t] # <<>>
  /\ running
  /\ inbox' = [inbox EXCEPT ![t] = RestFrames(@)]
  /\ delivered' = [delivered EXCEPT ![t] = Append(@, TakeFrame(inbox[t]))]
  /\ tpc' = [tpc EXCEPT ![t] = "handling"]
  /\ UNCHANGED <<running, task, ws, retry_delay, twait, subIdx, connState,
                 arrivedN, ndone, srvSub, subFrames, dpc, dtask, subscribed,
                 fails, lastWait>>
  /\ UNCHANGED <<xvars, kvars, pvars, dWhen, sendLog, handledKinds, pings>>

\* `async for` yields a frame after the stop: `if not self.running: break`
\* leaves the `async with`, and the loop test ends the task
RecvBreak(t) ==
  /\ tpc[t] = "recv"
  /\ inbox[t] # <<>>
  /\ ~running
  /\ DropConn(t)
  /\ LoopTop(t)
  /\ UNCHANGED <<running, task, retry_delay, twait, subIdx, dpc, dtask,
                 subscribed, fails, lastWait>>
  /\ UNCHANGED <<xvars, kvars, pvars, dWhen, sendLog, handledKinds, pings>>

\* _process_message returns (json.loads and _handle_message ran; whatever they
\* raised was caught and logged inside _process_message)
HandlerDone(t) ==
  /\ tpc[t] = "handling"
  /\ ndone' = [ndone EXCEPT ![t] = @ + 1]
  /\ tpc' = [tpc EXCEPT ![t] = "recv"]
  /\ UNCHANGED <<running, task, ws, retry_delay, twait, subIdx, connState,
                 inbox, arrivedN, delivered, srvSub, subFrames, dpc, dtask,
                 subscribed, fails, lastWait>>
  /\ UNCHANGED <<xvars, kvars, pvars, dWhen, sendLog, handledKinds, pings>>

\* what a frame can be to _process_message: well-formed and known, not valid
\* JSON, of a message type no branch handles, or one whose handler raises
FrameKinds == {"ok", "bad_json", "unknown", "raises"}

\* a _process_message without its `except Exception` clause
Escapes_Unguarded(kind) == kind = "raises"

\* whether an exception leaves _process_message for a frame of this kind:
\* json.JSONDecodeError and every other Exception are caught and logged, an
\* unknown type falls through the branches of _handle_message
Escapes(kind) == FALSE

\* _process_message of task t ends for a frame of the given kind; an escaping
\* exception would leave the `async with` for the `except Exception` of _run
ProcessMessage(t, kind) ==
  /\ tpc[t] = "handling"
  /\ handledKinds' = [handledKinds EXCEPT ![t] = Append(@, kind)]
  /\ IF Escapes(kind)
     THEN /\ DropConn(t)
          /\ OnFailure(t)
     ELSE /\ ndone' = [ndone EXCEPT ![t] = @ + 1]
          /\ tpc' = [tpc EXCEPT ![t] = "recv"]
          /\ UNCHANGED <<ws, twait, fails, lastWait, connState, inbox,
                         arrivedN, delivered, srvSub, subFrames>>
  /\ UNCHANGED <<running, task, retry_delay, subIdx, dpc, dtask, subscribed,
                 dWhen, sendLog, pings>>
  /\ UNCHANGED <<xvars, kvars, pvars>>

\* the stream ended with a normal closure: `async for` stops without raising,
\* the `async with` is left and the loop test is evaluated at once
RecvEndOK(t) ==
  /\ tpc[t] = "recv"
  /\ inbox[t] = <<>>
  /\ connState[t] = "closed_ok"
  /\ DropConn(t)
  /\ LoopTop(t)
  /\ UNCHANGED <<running, task, retry_delay, twait, subIdx, dpc, dtask,
                 subscribed, fails, lastWait>>
  /\ UNCHANGED <<xvars, kvars, pvars, dWhen, sendLog, handledKinds, pings>>

\* the stream ended abnormally: `async for` raises websockets.ConnectionClosed
RecvEndErr(t) ==
  /\ tpc[t] = "recv"
  /\ inbox[t] = <<>>
  /\ connState[t] = "closed_err"
  /\ DropConn(t)
  /\ OnFailure(t)
  /\ UNCHANGED <<running, task, retry_delay, subIdx, dpc, dtask, subscribed>>
  /\ UNCHANGED <<xvars, kvars, pvars, dWhen, sendLog, handledKinds, pings>>

\* _wait_and_backoff resumes after asyncio.sleep: the delay is doubled up to
\* the cap, then the loop test
SleepDone(t) ==
  /\ tpc[t] = "sleeping"
  /\ retry_delay' = NextDelay(retry_delay)
  /\ twait' = [twait EXCEPT ![t] = 0]
  /\ LoopTop(t)
  /\ UNCHANGED <<running, task, subIdx, connState, inbox, arrivedN,
                 delivered, ndone, srvSub, subFrames, dpc, dtask, subscribed,
                 fails, lastWait>>
  /\ UNCHANGED <<xvars, kvars, pvars, dWhen, sendLog, handledKinds, pings>>

\* ---- the peer and the network
Arrive(t) ==
  /\ connState[t] = "open"
  /\ arrivedN[t] < MaxFrames
  /\ arrivedN' = [arrivedN EXCEPT ![t] = @ + 1]
  /\ inbox' = [inbox EXCEPT ![t] = Append(@, arrivedN[t] + 1)]
  /\ UNCHANGED <<running, task, ws, retry_delay, tpc, twait, subIdx,
                 connState, delivered, ndone, srvSub, subFrames, dpc, dtask,
                 subscribed, fails, lastWait>>
  /\ UNCHANGED <<xvars, kvars, pvars, dWhen, sendLog, handledKinds, pings>>

PeerClose(t) ==
  /\ connState[t] = "open"
  /\ \E how \in {"closed_ok", "closed_err"} :
       connState' = [connState EXCEPT ![t] = how]
  /\ UNCHANGED <<running, task, ws, retry_delay, tpc, twait, subIdx,
                 inbox, arrivedN, delivered, ndone, srvSub, subFrames, dpc,
                 dtask, subscribed, fails, lastWait>>
  /\ UNCHANGED <<xvars, kvars, pvars, dWhen, sendLog, handledKinds, pings>>

\* ---- BaseWebSocket.disconnect()

\* a task that would swallow the cancellation and stay where it is
Cancel_Ignored(t) ==
  UNCHANGED <<tpc, twait, subIdx, ws, connState, inbox, arrivedN,
              delivered, ndone, srvSub, subFrames>>

\* what Task.cancel() does to a suspended _run(): CancelledError is raised at
\* its await, passes every `except Exception`, the `async with` (if entered)
\* closes the connection, and the trailing `self._ws = None` is skipped
Cancel(t) ==
  IF t # None /\ tpc[t] # "done"
  THEN /\ tpc' = [tpc EXCEPT ![t] = "done"]
       /\ twait' = [twait EXCEPT ![t] = 0]
       /\ subIdx' = [subIdx EXCEPT ![t] = 1]
       /\ ws' = WsAfterDrop(t)
       /\ DropConn(t)
  ELSE UNCHANGED <<tpc, twait, subIdx, ws, connState, inbox, arrivedN,
                   delivered, ndone, srvSub, subFrames>>

\* whether the awaited task can still be suspended when the 5 s of
\* asyncio.wait_for(self._task, timeout=5.0) are over: not while it sleeps
\* less than that, nor while `async for` has something to return
CanTimeOut(t) ==
  CASE tpc[t] = "sleeping" -> twait[t] > WAIT_TIMEOUT
    [] tpc[t] = "recv"     -> connState[t] = "open" /\ inbox[t] = <<>>
    [] tpc[t] = "done"     -> FALSE
    [] OTHER               -> TRUE

\* after `self._ws = None` (or with no connection): `if self._task:` starts the
\* bounded wait, otherwise disconnect() returns
AfterWsCleared ==
  IF task # None
  THEN dpc' = "waiting" /\ dtask' = task
  ELSE dpc' = "idle" /\ dtask' = None

\* disconnect() up to its first await; self._ws.close() starts the closing
\* handshake of an open connection
DisconnectBeginT ==
  /\ dpc = "idle"
  /\ running' = FALSE
  /\ dWhen' = IF task # None THEN tpc[task] ELSE "nothing"
  /\ IF ws # None
     THEN /\ connState' = IF IsConnected
                          THEN [connState EXCEPT ![ws] = "closed_ok"]
                          ELSE connState
          /\ dpc' = "closing"
          /\ dtask' = None
     ELSE /\ connState' = connState
          /\ AfterWsCleared
  /\ UNCHANGED <<task, ws, retry_delay, tpc, twait, subIdx, inbox,
                 arrivedN, delivered, ndone, srvSub, subFrames, subscribed,
                 fails, lastWait, sendLog, handledKinds, pings>>

DisconnectBegin == DisconnectBeginT /\ UNCHANGED <<xvars, kvars, pvars>>

\* `await self._ws.close()` returned: `self._ws = None`
DisconnectClosed ==
  /\ dpc = "closing"
  /\ ws' = None
  /\ AfterWsCleared
  /\ UNCHANGED <<running, task, retry_delay, tpc, twait, subIdx, connState,
                 inbox, arrivedN, delivered, ndone, srvSub, subFrames,
                 subscribed, fails, lastWait>>
  /\ UNCHANGED <<xvars, kvars, pvars, dWhen, sendLog, handledKinds, pings>>

\* the awaited task finished within the timeout: `self._task = None`
DisconnectWaitDone ==
  /\ dpc = "waiting"
  /\ tpc[dtask] = "done"
  /\ task' = None
  /\ dpc' = "idle"
  /\ dtask' = None
  /\ UNCHANGED <<running, ws, retry_delay, tpc, twait, subIdx, connState,
                 inbox, arrivedN, delivered, ndone, srvSub, subFrames,
                 subscribed, fails, lastWait>>
  /\ UNCHANGED <<xvars, kvars, pvars, dWhen, sendLog, handledKinds, pings>>

\* asyncio.wait_for times out: it cancels the task it was given, waits for the
\* cancellation and raises TimeoutError
DisconnectTimeout ==
  /\ dpc = "waiting"
  /\ CanTimeOut(dtask)
  /\ Cancel(dtask)
  /\ dpc' = "cancelling"
  /\ UNCHANGED <<running, task, retry_delay, dtask, subscribed, fails,
                 lastWait>>
  /\ UNCHANGED <<xvars, kvars, pvars, dWhen, sendLog, handledKinds, pings>>

\* `except asyncio.TimeoutError`: self._task.cancel(); await self._task;
\* then `self._task = None`.  self._task is read again here.
DisconnectCancel ==
  /\ dpc = "cancelling"
  /\ Cancel(task)
  /\ task' = None
  /\ dpc' = "idle"
  /\ dtask' = None
  /\ UNCHANGED <<running, retry_delay, subscribed, fails, lastWait>>
  /\ UNCHANGED <<xvars, kvars, pvars, dWhen, sendLog, handledKinds, pings>>

\* ---- Predict.fun OrderbookWebSocket.subscribe / unsubscribe
\* (self._callbacks and the request counter self._msg_id are not modelled)

Subscribe(m) ==
  /\ subscribed' = IF m \in SeqToSet(subscribed) THEN subscribed ELSE Append(subscribed, m)
  /\ subFrames' = SubFramesAfterSend(m)
  /\ srvSub' = SrvSubAfterSend(m)
  /\ UNCHANGED <<running, task, ws, retry_delay, tpc, twait, subIdx,
                 connState, inbox, arrivedN, delivered, ndone, dpc, dtask,
                 fails, lastWait>>
  /\ UNCHANGED <<xvars, kvars, pvars, dWhen, sendLog, handledKinds, pings>>

Unsubscribe(m) ==
  /\ subscribed' = IF m \in SeqToSet(subscribed) THEN ListRemove(subscribed, m) ELSE subscribed
  /\ srvSub' = IF IsConnected THEN [srvSub EXCEPT ![ws] = @ \ {m}] ELSE srvSub
  /\ UNCHANGED <<running, task, ws, retry_delay, tpc, twait, subIdx,
                 connState, inbox, arrivedN, delivered, ndone, subFrames, dpc,
                 dtask, fails, lastWait>>
  /\ UNCHANGED <<xvars, kvars, pvars, dWhen, sendLog, handledKinds, pings>>

\* ---- BaseWebSocket.send(data)

\* a send that would take any connection object for a usable one
SendOutcome_AnyObject == IF ws = None THEN "skipped" ELSE "sent"

\* `if self._ws is None:` warn and return; otherwise `await self._ws.send(...)`,
\* which transmits on an open connection and raises on a closed one, and
\* `except Exception` logs what it raised
SendOutcome ==
  IF ws = None THEN "skipped"
  ELSE IF IsConnected THEN "sent" ELSE "error"

Send ==
  /\ Len(sendLog) < MaxSends
  /\ sendLog' = Append(sendLog, SendOutcome)
  /\ UNCHANGED <<running, task, ws, retry_delay, tpc, twait, subIdx, connState,
                 inbox, arrivedN, delivered, ndone, srvSub, subFrames, dpc,
                 dtask, subscribed, fails, lastWait, dWhen, handledKinds, pings>>
  /\ UNCHANGED <<xvars, kvars, pvars>>

\* ---- Predict.fun OrderbookWebSocket._heartbeat_loop

\* the loop wakes from asyncio.sleep(HEARTBEAT_INTERVAL) on a running client
\* with an open connection and sends a ping; nothing records that a pong is
\* now due, and an exception of the send is only logged
HeartbeatPing ==
  /\ running
  /\ IsConnected
  /\ pings[ws] < MaxPings
  /\ pings' = [pings EXCEPT ![ws] = @ + 1]
  /\ UNCHANGED <<running, task, ws, retry_delay, tpc, twait, subIdx, connState,
                 inbox, arrivedN, delivered, ndone, srvSub, subFrames, dpc,
                 dtask, subscribed, fails, lastWait, dWhen, sendLog,
                 handledKinds>>
  /\ UNCHANGED <<xvars, kvars, pvars>>

\* the peer answers a ping; _handle_message returns on a "pong" at once
Pong(t) ==
  /\ tpc[t] = "recv"
  /\ connState[t] = "open"
  /\ pings[t] > 0
  /\ pings' = [pings EXCEPT ![t] = @ - 1]
  /\ UNCHANGED <<running, task, ws, retry_delay, tpc, twait, subIdx, connState,
                 inbox, arrivedN, delivered, ndone, srvSub, subFrames, dpc,
                 dtask, subscribed, fails, lastWait, dWhen, sendLog,
                 handledKinds>>
  /\ UNCHANGED <<xvars, kvars, pvars>>

\* ======================================================================
\* Kalshi OrderbookWebSocket
\* ======================================================================

KSlots == 1..MaxConnects
Tickers == {"KXBTC", "KXETH"}
Sides == {"yes", "no"}
\* prices are whole cents; resting orders are priced 0.01-0.99
\* (exchanges/kalshi/client.py, place_limit_order)
FeedPrices == {40, 60}
Deltas == {-2, -1, 1}

\* an Optional number: {} is None, {x} is x
NoneV == {}
Some(x) == {x}
TheV(o) == CHOOSE x \in o : TRUE
\* Python truthiness of an Optional number: None and 0 are false
Truthy(o) == o # NoneV /\ o # Some(0)

\* dicts are functions on their key set
EmptyDict == [x \in {} |-> 0]
DictSet(f, k, v) == [x \in DOMAIN f \cup {k} |-> IF x = k THEN v ELSE f[x]]
DictPop(f, k) == [x \in DOMAIN f \ {k} |-> f[x]]
DictGet(f, k, dflt) == IF k \in DOMAIN f THEN f[k] ELSE dflt

MaxOf(S) == CHOOSE x \in S : \A y \in S : y <= x

\* the level lists a snapshot may carry for one side: none, two levels, or
\* one level of quantity 0
SnapSidesOver(P) ==
  { EmptyDict,
    [p \in P |-> IF p = MaxOf(P) THEN 1 ELSE 2],
    [p \in {MaxOf(P)} |-> 0] }

SnapshotMsgs(P) ==
  {[type |-> "orderbook_snapshot", ticker |-> tk, yes |-> y, no |-> n] :
     tk \in Tickers, y \in SnapSidesOver(P), n \in SnapSidesOver(P)}

DeltaMsgs(P) ==
  {[type |-> "orderbook_delta", ticker |-> tk, side |-> sd, price |-> p, delta |-> d] :
     tk \in Tickers, sd \in Sides, p \in P, d \in Deltas}

\* "subscribed", "error", an unknown type, or a frame json.loads rejects
OtherMsg == [type |-> "other"]

\* _update_best_prices: the entry stored in self._prices[ticker]; a decimal
\* price c / 100 is written as its number of hundredths c
BestPrices(book) ==
  LET yes_book == book.yes
      no_book == book.no
      yes_bids == {p \in DOMAIN yes_book : yes_book[p] > 0}
      no_bids == {p \in DOMAIN no_book : no_book[p] > 0}
      yes_bid == IF yes_bids # {} THEN Some(MaxOf(yes_bids)) ELSE NoneV
      yes_bid_size == IF Truthy(yes_bid) THEN Some(DictGet(yes_book, TheV(yes_bid), 0)) ELSE NoneV
      no_bid == IF no_bids # {} THEN Some(MaxOf(no_bids)) ELSE NoneV
      no_bid_size == IF Truthy(no_bid) THEN Some(DictGet(no_book, TheV(no_bid), 0)) ELSE NoneV
      yes_ask == IF Truthy(no_bid) THEN Some(100 - TheV(no_bid)) ELSE NoneV
      no_ask == IF Truthy(yes_bid) THEN Some(100 - TheV(yes_bid)) ELSE NoneV
  IN  [yes_bid |-> IF Truthy(yes_bid) THEN yes_bid ELSE NoneV,
       yes_bid_size |-> yes_bid_size,
       yes_ask |-> IF Truthy(yes_ask) THEN yes_ask ELSE NoneV,
       yes_ask_size |-> no_bid_size,
       no_bid |-> IF Truthy(no_bid) THEN no_bid ELSE NoneV,
       no_bid_size |-> no_bid_size,
       no_ask |-> IF Truthy(no_ask) THEN no_ask ELSE NoneV,
       no_ask_size |-> yes_bid_size]

\* a snapshot handler that would add the levels it is given to the stored ones
SnapshotBooks_Add(books, m) ==
  LET old(sd, p) == IF m.ticker \in DOMAIN books THEN DictGet(books[m.ticker][sd], p, 0) ELSE 0
  IN  DictSet(books, m.ticker,
              [yes |-> [p \in DOMAIN m.yes |-> m.yes[p] + old("yes", p)],
               no |-> [p \in DOMAIN m.no |-> m.no[p] + old("no", p)]])

\* _handle_snapshot: the book of the ticker is replaced by the levels given
SnapshotBooks(books, m) ==
  DictSet(books, m.ticker, [yes |-> m.yes, no |-> m.no])

\* the quantity _handle_delta computes for the level
DeltaQty(current_qty, delta) == current_qty + delta

\* _handle_delta: a missing book is created empty, the level is set to
\* current + delta, or popped when that is <= 0
DeltaBooks(books, m) ==
  LET withBook == IF m.ticker \in DOMAIN books
                  THEN books
                  ELSE DictSet(books, m.ticker, [yes |-> EmptyDict, no |-> EmptyDict])
      book == withBook[m.ticker][m.side]
      new_qty == DeltaQty(DictGet(book, m.price, 0), m.delta)
      side2 == IF new_qty <= 0 THEN DictPop(book, m.price) ELSE DictSet(book, m.price, new_qty)
  IN  [withBook EXCEPT ![m.ticker][m.side] = side2]

\* _process_message on one frame: the books afterwards
BooksAfter(books, m) ==
  CASE m.type = "orderbook_snapshot" -> SnapshotBooks(books, m)
    [] m.type = "orderbook_delta"    -> DeltaBooks(books, m)
    [] OTHER                         -> books

\* ... and self._prices afterwards: only the handlers of the two book
\* messages end in _update_best_prices(ticker)
PricesAfter(prices, books2, m) ==
  IF m.type \in {"orderbook_snapshot", "orderbook_delta"}
  THEN DictSet(prices, m.ticker, BestPrices(books2[m.ticker]))
  ELSE prices

\* whether the frame ends in the on_update call of _update_best_prices
Emits(m) == m.type \in {"orderbook_snapshot", "orderbook_delta"}

KInitWith(kinds) ==
  /\ k_running = FALSE
  /\ k_ws = None
  /\ k_task = None
  /\ k_orderbooks = EmptyDict
  /\ k_prices = EmptyDict
  /\ kOnUpdate \in kinds
  /\ kcall = "idle"
  /\ kconn = [i \in KSlots |-> "none"]
  /\ ktpc = [i \in KSlots |-> "unborn"]
  /\ kPending = 0
  /\ kClosed = FALSE
  /\ kLate = FALSE
  /\ kmsgs = 0
  /\ kLastMsg = [type |-> "none"]
  /\ kRaised = FALSE
  /\ kDup = FALSE

\* the slot of the next connect(): connections and tasks are numbered by the
\* connect() call that made them
KNextSlot == CHOOSE i \in KSlots : kconn[i] = "none" /\ \A j \in KSlots : kconn[j] = "none" => i <= j

\* connect(market_tickers) up to `await websockets.connect(...)`
KConnectBegin ==
  /\ kcall = "idle"
  /\ \E i \in KSlots : kconn[i] = "none"
  /\ kcall' = "handshake"
  /\ kClosed' = FALSE
  /\ UNCHANGED <<k_running, k_ws, k_task, k_orderbooks, k_prices, kOnUpdate,
                 kconn, ktpc, kPending, kLate, kmsgs, kLastMsg>>
  /\ UNCHANGED <<xvars, tvars, pvars, kRaised, kDup>>

\* the handshake succeeds: self._ws = the new connection, self._running = True,
\* and _subscribe awaits its send
KConnectOK ==
  /\ kcall = "handshake"
  /\ k_ws' = KNextSlot
  /\ kconn' = [kconn EXCEPT ![KNextSlot] = "open"]
  /\ k_running' = TRUE
  /\ kcall' = "subscribing"
  /\ UNCHANGED <<k_task, k_orderbooks, k_prices, kOnUpdate, ktpc, kPending,
                 kClosed, kLate, kmsgs, kLastMsg>>
  /\ UNCHANGED <<xvars, tvars, pvars, kRaised, kDup>>

\* the handshake fails: the exception leaves connect(); nothing was started
KConnectFail ==
  /\ kcall = "handshake"
  /\ kcall' = "idle"
  /\ kRaised' = TRUE
  /\ UNCHANGED <<k_running, k_ws, k_task, k_orderbooks, k_prices, kOnUpdate,
                 kconn, ktpc, kPending, kClosed, kLate, kmsgs, kLastMsg>>
  /\ UNCHANGED <<xvars, tvars, pvars, kDup>>

\* the subscribe frame is sent: self._task = create_task(_handle_messages()),
\* which iterates the connection self._ws names
KConnectSubscribed ==
  /\ kcall = "subscribing"
  /\ k_task' = k_ws
  /\ ktpc' = [ktpc EXCEPT ![k_ws] = "recv"]
  /\ kcall' = "idle"
  /\ UNCHANGED <<k_running, k_ws, k_orderbooks, k_prices, kOnUpdate, kconn,
                 kPending, kClosed, kLate, kmsgs, kLastMsg>>
  /\ UNCHANGED <<xvars, tvars, pvars, kRaised, kDup>>

\* _process_message on frame m, then the on_update call of
\* _update_best_prices; a coroutine it returns is left to create_task
KHandle(m) ==
  /\ kmsgs < MaxMsgs
  /\ kmsgs' = kmsgs + 1
  /\ kLastMsg' = m
  /\ kDup' = (m = kLastMsg)
  /\ k_orderbooks' = BooksAfter(k_orderbooks, m)
  /\ k_prices' = PricesAfter(k_prices, BooksAfter(k_orderbooks, m), m)
  /\ kPending' = IF Emits(m) /\ kOnUpdate = "async" THEN kPending + 1 ELSE kPending
  /\ kLate' = (kLate \/ (Emits(m) /\ kOnUpdate = "sync" /\ kClosed))

\* _handle_messages of task i gets frame m while running, and waits for the
\* next frame
KRecvMsg(i, m) ==
  /\ ktpc[i] = "recv"
  /\ kconn[i] = "open"
  /\ k_running
  /\ KHandle(m)
  /\ UNCHANGED <<k_running, k_ws, k_task, kOnUpdate, kcall, kconn, ktpc, kClosed>>
  /\ UNCHANGED <<xvars, tvars, pvars, kRaised>>

\* frame m is the last of the stream: the peer closed behind it, so the same
\* step of the task handles m, leaves the loop and runs the `finally` clause
KRecvLast(i, m) ==
  /\ ktpc[i] = "recv"
  /\ kconn[i] = "open"
  /\ k_running
  /\ KHandle(m)
  /\ \E how \in {"closed_ok", "closed_err"} : kconn' = [kconn EXCEPT ![i] = how]
  /\ ktpc' = [ktpc EXCEPT ![i] = "ended"]
  /\ k_running' = FALSE
  /\ UNCHANGED <<k_ws, k_task, kOnUpdate, kcall, kClosed>>
  /\ UNCHANGED <<xvars, tvars, pvars, kRaised>>

\* a frame arrives after the stop: `if not self._running: break`, then the
\* `finally` clause
KRecvBreak(i) ==
  /\ ktpc[i] = "recv"
  /\ kconn[i] = "open"
  /\ ~k_running
  /\ ktpc' = [ktpc EXCEPT ![i] = "stopped"]
  /\ k_running' = FALSE
  /\ UNCHANGED <<k_ws, k_task, k_orderbooks, k_prices, kOnUpdate, kcall, kconn,
                 kPending, kClosed, kLate, kmsgs, kLastMsg>>
  /\ UNCHANGED <<xvars, tvars, pvars, kRaised, kDup>>

\* the stream of task i ends (normally, or with ConnectionClosed, which is
\* caught and logged): `finally: self._running = False`, and the task
\* returns; "ended" when it was the peer that closed
KStreamEnd(i) ==
  /\ ktpc[i] = "recv"
  /\ kconn[i] \in {"closed_ok", "closed_err", "closed_self"}
  /\ ktpc' = [ktpc EXCEPT ![i] = IF kconn[i] = "closed_self" THEN "stopped" ELSE "ended"]
  /\ k_running' = FALSE
  /\ UNCHANGED <<k_ws, k_task, k_orderbooks, k_prices, kOnUpdate, kcall, kconn,
                 kPending, kClosed, kLate, kmsgs, kLastMsg>>
  /\ UNCHANGED <<xvars, tvars, pvars, kRaised, kDup>>

\* the peer or the network ends connection i
KPeerClose(i) ==
  /\ kconn[i] = "open"
  /\ \E how \in {"closed_ok", "closed_err"} : kconn' = [kconn EXCEPT ![i] = how]
  /\ UNCHANGED <<k_running, k_ws, k_task, k_orderbooks, k_prices, kOnUpdate,
                 kcall, ktpc, kPending, kClosed, kLate, kmsgs, kLastMsg>>
  /\ UNCHANGED <<xvars, tvars, pvars, kRaised, kDup>>

\* the event loop runs a callback coroutine that create_task scheduled
KRunCallback ==
  /\ kPending > 0
  /\ kPending' = kPending - 1
  /\ kLate' = (kLate \/ kClosed)
  /\ UNCHANGED <<k_running, k_ws, k_task, k_orderbooks, k_prices, kOnUpdate,
                 kcall, kconn, ktpc, kClosed, kmsgs, kLastMsg>>
  /\ UNCHANGED <<xvars, tvars, pvars, kRaised, kDup>>

\* whether close() has nothing to wait for: no open connection to close and
\* no live task to cancel
KCloseImmediate ==
  /\ (IF k_ws = None THEN TRUE ELSE kconn[k_ws] # "open")
  /\ (IF k_task = None THEN TRUE ELSE ktpc[k_task] # "recv")

\* close() up to its first await: self._running = False, self._ws.close()
KCloseBegin ==
  /\ kcall = "idle"
  /\ ~KCloseImmediate
  /\ k_running' = FALSE
  /\ kconn' = IF k_ws # None /\ kconn[k_ws] = "open"
              THEN [kconn EXCEPT ![k_ws] = "closed_self"]
              ELSE kconn
  /\ kcall' = "closing"
  /\ UNCHANGED <<k_ws, k_task, k_orderbooks, k_prices, kOnUpdate, ktpc,
                 kPending, kClosed, kLate, kmsgs, kLastMsg>>
  /\ UNCHANGED <<xvars, tvars, pvars, kRaised, kDup>>

\* the rest of close(): self._task.cancel(), await it, return.  A cancelled
\* _handle_messages runs its `finally` and ends.  close() resumes on a wake-up
\* registered after those of the callback tasks, which the loop runs in order.
KCloseEnd ==
  /\ kcall = "closing"
  /\ kPending = 0
  /\ ktpc' = IF k_task # None /\ ktpc[k_task] = "recv"
             THEN [ktpc EXCEPT ![k_task] = "stopped"]
             ELSE ktpc
  /\ kcall' = "idle"
  /\ kClosed' = TRUE
  /\ UNCHANGED <<k_running, k_ws, k_task, k_orderbooks, k_prices, kOnUpdate,
                 kconn, kPending, kLate, kmsgs, kLastMsg>>
  /\ UNCHANGED <<xvars, tvars, pvars, kRaised, kDup>>

\* close() with nothing to wait for runs through in one step
KCloseNow ==
  /\ kcall = "idle"
  /\ KCloseImmediate
  /\ k_running' = FALSE
  /\ kClosed' = TRUE
  /\ UNCHANGED <<k_ws, k_task, k_orderbooks, k_prices, kOnUpdate, kcall, kconn,
                 ktpc, kPending, kLate, kmsgs, kLastMsg>>
  /\ UNCHANGED <<xvars, tvars, pvars, kRaised, kDup>>

\* ======================================================================
\* Polymarket OrderbookWebSocket
\* ======================================================================

Assets == {"tokenA", "tokenB"}
\* prices and sizes travel as decimal strings
PriceStrs == {"0.40", "0.60"}
SizeStrs == {"10", "25"}

\* float(x) of a price string, in hundredths
FloatPrice(x) == CASE x = "0.40" -> 40 [] x = "0.60" -> 60
\* float(x) of a size string
FloatSize(x) == CASE x = "10" -> 10 [] x = "25" -> 25

\* the level lists a book message may carry for one side: none, one level,
\* or two levels
BookSides ==
  { {},
    {[price |-> "0.40", size |-> "10"]},
    {[price |-> "0.40", size |-> "25"], [price |-> "0.60", size |-> "10"]} }

BookMsgs ==
  {[event_type |-> "book", asset_id |-> a, bids |-> b, asks |-> k] :
     a \in Assets, b \in BookSides, k \in BookSides}

\* a price update: best_bid / best_ask are price strings or missing
UpdateMsgs ==
  {[event_type |-> "price_change", asset_id |-> a, best_bid |-> b, best_ask |-> k] :
     a \in Assets, b \in {NoneV} \cup {Some(x) : x \in PriceStrs},
     k \in {NoneV} \cup {Some(x) : x \in PriceStrs}}

PAllMsgs == BookMsgs \cup UpdateMsgs

\* max(bids, key=lambda x: float(x["price"]))
BestBidItem(levels) ==
  CHOOSE x \in levels : \A y \in levels : FloatPrice(y.price) <= FloatPrice(x.price)
\* min(asks, key=lambda x: float(x["price"]))
BestAskItem(levels) ==
  CHOOSE x \in levels : \A y \in levels : FloatPrice(x.price) <= FloatPrice(y.price)

PInitWith(kinds) ==
  /\ p_bids = EmptyDict
  /\ p_asks = EmptyDict
  /\ p_bid_sizes = EmptyDict
  /\ p_ask_sizes = EmptyDict
  /\ pmsgs = 0
  /\ pLastMsg = [event_type |-> "none"]
  /\ pOnUpdate \in kinds
  /\ ppc = "idle"
  /\ pCur = [event_type |-> "none"]
  /\ pSeen = NoneV
  /\ pHist = {[bids |-> EmptyDict, asks |-> EmptyDict]}
  /\ pConnAt = 0
  /\ pDup = FALSE

PInit == PInitWith({"none"})

\* _process_book: a side is written only `if bids:` / `if asks:`
ProcessBook(m) ==
  /\ IF m.bids # {}
     THEN /\ p_bids' = DictSet(p_bids, m.asset_id, FloatPrice(BestBidItem(m.bids).price))
          /\ p_bid_sizes' = DictSet(p_bid_sizes, m.asset_id, FloatSize(BestBidItem(m.bids).size))
     ELSE UNCHANGED <<p_bids, p_bid_sizes>>
  /\ IF m.asks # {}
     THEN /\ p_asks' = DictSet(p_asks, m.asset_id, FloatPrice(BestAskItem(m.asks).price))
          /\ p_ask_sizes' = DictSet(p_ask_sizes, m.asset_id, FloatSize(BestAskItem(m.asks).size))
     ELSE UNCHANGED <<p_asks, p_ask_sizes>>

\* _process_update: only the best prices are written, never the sizes
ProcessUpdate(m) ==
  /\ p_bids' = IF m.best_bid # NoneV
               THEN DictSet(p_bids, m.asset_id, FloatPrice(TheV(m.best_bid)))
               ELSE p_bids
  /\ p_asks' = IF m.best_ask # NoneV
               THEN DictSet(p_asks, m.asset_id, FloatPrice(TheV(m.best_ask)))
               ELSE p_asks
  /\ UNCHANGED <<p_bid_sizes, p_ask_sizes>>

\* the loop of task t hands frame m to _handle_message, which runs to its end
PHandleMessage(t, m) ==
  /\ running
  /\ tpc[t] = "recv"
  /\ connState[t] = "open"
  /\ pmsgs < MaxMsgs
  /\ pmsgs' = pmsgs + 1
  /\ pLastMsg' = m
  /\ pDup' = (m = pLastMsg)
  /\ IF m.event_type = "book" THEN ProcessBook(m) ELSE ProcessUpdate(m)
  /\ UNCHANGED <<xvars, tvars, kvars, prvars>>

\* a handler that would call clear() when the connection comes up
OnConnectDict_Clear(d) == EmptyDict

\* what _on_connect makes of a stored dict: it sends the subscribe message
\* and touches none of bids, asks, bid_sizes, ask_sizes
OnConnectDict(d) == d

\* the handshake of the Polymarket client succeeds and _on_connect runs
PConnectOK(t) ==
  /\ ConnectOKT(t)
  /\ p_bids' = OnConnectDict(p_bids)
  /\ p_asks' = OnConnectDict(p_asks)
  /\ p_bid_sizes' = OnConnectDict(p_bid_sizes)
  /\ p_ask_sizes' = OnConnectDict(p_ask_sizes)
  /\ pConnAt' = pmsgs
  /\ UNCHANGED <<pmsgs, pLastMsg, pOnUpdate, ppc, pCur, pSeen, pHist, pDup>>
  /\ UNCHANGED <<xvars, kvars>>

\* ---- _handle_message statement by statement, and a reader in another task

\* dict.get(key): the value, or None
DictOpt(f, k) == IF k \in DOMAIN f THEN Some(f[k]) ELSE NoneV

\* get_bid_ask(token_id)
GetBidAsk(a) == <<DictOpt(p_bids, a), DictOpt(p_asks, a)>>

\* get_orderbook(token_id): a single-level book from the stored best prices
\* (`bid_size or 0.0`); Orderbook(token_id=, bids=, asks=) is built without a
\* timestamp, so the field keeps its default None
GetOrderbook(a) ==
  [token_id |-> a,
   bids |-> IF a \in DOMAIN p_bids
            THEN << <<p_bids[a], IF a \in DOMAIN p_bid_sizes THEN p_bid_sizes[a] ELSE 0>> >>
            ELSE << >>,
   asks |-> IF a \in DOMAIN p_asks
            THEN << <<p_asks[a], IF a \in DOMAIN p_ask_sizes THEN p_ask_sizes[a] ELSE 0>> >>
            ELSE << >>,
   timestamp |-> NoneV]

\* a scheduler that could switch tasks between any two statements
Suspended_Anywhere(pc) == TRUE

\* the places where _handle_message is suspended and the event loop may run
\* another task: between frames (the `async for` of _run) and in
\* `await result` of an on_update coroutine
Suspended(pc) == pc \in {"idle", "callback"}

\* whether the handler of frame m ends in a call of on_update
PCalls(m) ==
  /\ pOnUpdate # "none"
  /\ m.event_type = "book" \/ m.best_bid # NoneV \/ m.best_ask # NoneV

\* the loop of task t hands frame m to _handle_message
PBegin(t, m) ==
  /\ running
  /\ tpc[t] = "recv"
  /\ connState[t] = "open"
  /\ ppc = "idle"
  /\ pmsgs < MaxMsgs
  /\ pmsgs' = pmsgs + 1
  /\ pCur' = m
  /\ ppc' = "bids"
  /\ UNCHANGED <<p_bids, p_asks, p_bid_sizes, p_ask_sizes, pLastMsg, pOnUpdate,
                 pSeen, pHist>>
  /\ UNCHANGED <<xvars, tvars, kvars, pConnAt, pDup>>

\* the statements that write the bid side (_process_book 113-116,
\* _process_update 93-94)
PWriteBids ==
  /\ ppc = "bids"
  /\ IF pCur.event_type = "book"
     THEN IF pCur.bids # {}
          THEN /\ p_bids' = DictSet(p_bids, pCur.asset_id, FloatPrice(BestBidItem(pCur.bids).price))
               /\ p_bid_sizes' = DictSet(p_bid_sizes, pCur.asset_id, FloatSize(BestBidItem(pCur.bids).size))
          ELSE UNCHANGED <<p_bids, p_bid_sizes>>
     ELSE /\ p_bids' = IF pCur.best_bid # NoneV
                       THEN DictSet(p_bids, pCur.asset_id, FloatPrice(TheV(pCur.best_bid)))
                       ELSE p_bids
          /\ UNCHANGED p_bid_sizes
  /\ ppc' = "asks"
  /\ UNCHANGED <<p_asks, p_ask_sizes, pmsgs, pLastMsg, pOnUpdate, pCur, pSeen, pHist>>
  /\ UNCHANGED <<xvars, tvars, kvars, pConnAt, pDup>>

\* the statements that write the ask side (_process_book 118-121,
\* _process_update 95-96); the mutation step is then complete, and the
\* handler returns or awaits the coroutine of on_update
PWriteAsks ==
  /\ ppc = "asks"
  /\ IF pCur.event_type = "book"
     THEN IF pCur.asks # {}
          THEN /\ p_asks' = DictSet(p_asks, pCur.asset_id, FloatPrice(BestAskItem(pCur.asks).price))
               /\ p_ask_sizes' = DictSet(p_ask_sizes, pCur.asset_id, FloatSize(BestAskItem(pCur.asks).size))
          ELSE UNCHANGED <<p_asks, p_ask_sizes>>
     ELSE /\ p_asks' = IF pCur.best_ask # NoneV
                       THEN DictSet(p_asks, pCur.asset_id, FloatPrice(TheV(pCur.best_ask)))
                       ELSE p_asks
          /\ UNCHANGED p_ask_sizes
  /\ pLastMsg' = pCur
  /\ pHist' = pHist \cup {[bids |-> p_bids, asks |-> p_asks']}
  /\ ppc' = IF PCalls(pCur) /\ pOnUpdate = "async" THEN "callback" ELSE "idle"
  /\ UNCHANGED <<p_bids, p_bid_sizes, pmsgs, pOnUpdate, pCur, pSeen>>
  /\ UNCHANGED <<xvars, tvars, kvars, pConnAt, pDup>>

\* the awaited on_update coroutine finishes and _handle_message returns
PCallbackDone ==
  /\ ppc = "callback"
  /\ ppc' = "idle"
  /\ UNCHANGED <<p_bids, p_asks, p_bid_sizes, p_ask_sizes, pmsgs, pLastMsg,
                 pOnUpdate, pCur, pSeen, pHist>>
  /\ UNCHANGED <<xvars, tvars, kvars, pConnAt, pDup>>

\* another task calls get_bid_ask(a); it can only run while the handler is
\* suspended
PGetBidAsk(a) ==
  /\ Suspended(ppc)
  /\ pSeen' = Some(GetBidAsk(a))
  /\ UNCHANGED <<p_bids, p_asks, p_bid_sizes, p_ask_sizes, pmsgs, pLastMsg,
                 pOnUpdate, ppc, pCur, pHist>>
  /\ UNCHANGED <<xvars, tvars, kvars, pConnAt, pDup>>

\* ---- frames whose handling raises

\* a string float() rejects with ValueError
BadStr == "n/a"
\* whether float(x) returns
FloatOK(x) == x # BadStr

\* the level lists of a book message on a feed that may carry a bad number
RawSides ==
  { {},
    {[price |-> "0.40", size |-> "10"]},
    {[price |-> "0.60", size |-> BadStr]},
    {[price |-> BadStr, size |-> "10"]} }

RawMsgs ==
  {[event_type |-> "book", asset_id |-> "tokenA", bids |-> b, asks |-> k] :
     b \in RawSides, k \in RawSides}
  \cup
  {[event_type |-> "price_change", asset_id |-> "tokenA", best_bid |-> b, best_ask |-> k] :
     b \in {NoneV, Some("0.40"), Some(BadStr)},
     k \in {NoneV, Some("0.60"), Some(BadStr)}}

\* _process_update statement by statement: float(best_bid) and the store in
\* self.bids, then float(best_ask) and the store in self.asks; a ValueError
\* leaves what was stored before it
UpdateAfter(m) ==
  LET a == m.asset_id
      bidBad == m.best_bid # NoneV /\ ~FloatOK(TheV(m.best_bid))
      askBad == m.best_ask # NoneV /\ ~FloatOK(TheV(m.best_ask))
  IN  [bids |-> IF m.best_bid # NoneV /\ ~bidBad
                THEN DictSet(p_bids, a, FloatPrice(TheV(m.best_bid)))
                ELSE p_bids,
       asks |-> IF m.best_ask # NoneV /\ ~bidBad /\ ~askBad
                THEN DictSet(p_asks, a, FloatPrice(TheV(m.best_ask)))
                ELSE p_asks,
       bid_sizes |-> p_bid_sizes,
       ask_sizes |-> p_ask_sizes,
       raised |-> bidBad \/ askBad]

\* _process_book statement by statement: max(bids, key=float(price)), the
\* store of the price, float(size) and the store of the size, then the same
\* for the asks
BookAfter(m) ==
  LET a == m.asset_id
      bidKeyBad == \E lv \in m.bids : ~FloatOK(lv.price)
      bidPrice == m.bids # {} /\ ~bidKeyBad
      bidSizeBad == bidPrice /\ ~FloatOK(BestBidItem(m.bids).size)
      bidRaised == bidKeyBad \/ bidSizeBad
      askKeyBad == ~bidRaised /\ \E lv \in m.asks : ~FloatOK(lv.price)
      askPrice == m.asks # {} /\ ~bidRaised /\ ~askKeyBad
      askSizeBad == askPrice /\ ~FloatOK(BestAskItem(m.asks).size)
  IN  [bids |-> IF bidPrice
                THEN DictSet(p_bids, a, FloatPrice(BestBidItem(m.bids).price))
                ELSE p_bids,
       bid_sizes |-> IF bidPrice /\ ~bidSizeBad
                     THEN DictSet(p_bid_sizes, a, FloatSize(BestBidItem(m.bids).size))
                     ELSE p_bid_sizes,
       asks |-> IF askPrice
                THEN DictSet(p_asks, a, FloatPrice(BestAskItem(m.asks).price))
                ELSE p_asks,
       ask_sizes |-> IF askPrice /\ ~askSizeBad
                     THEN DictSet(p_ask_sizes, a, FloatSize(BestAskItem(m.asks).size))
                     ELSE p_ask_sizes,
       raised |-> bidRaised \/ askKeyBad \/ askSizeBad]

\* BaseWebSocket._process_message on a frame of the Polymarket feed:
\* _handle_message runs until it returns or raises, and `except Exception`
\* logs what it raised
PProcessMessage(t, m) ==
  /\ running
  /\ tpc[t] = "recv"
  /\ connState[t] = "open"
  /\ pmsgs < MaxMsgs
  /\ pmsgs' = pmsgs + 1
  /\ pLastMsg' = m
  /\ pDup' = (m = pLastMsg)
  /\ LET r == IF m.event_type = "book" THEN BookAfter(m) ELSE UpdateAfter(m)
     IN  /\ p_bids' = r.bids
         /\ p_asks' = r.asks
         /\ p_bid_sizes' = r.bid_sizes
         /\ p_ask_sizes' = r.ask_sizes
         /\ pRaised' = r.raised
  /\ UNCHANGED <<uvars, hvars, bvars, tvars, kvars, prvars>>

\* ======================================================================
\* Polymarket UserWebSocket
\* ======================================================================

XInit ==
  /\ u_on_fill = "none"
  /\ u_running = FALSE
  /\ uRaised = FALSE
  /\ hbCur = FALSE
  /\ hbOld = 0
  /\ pRaised = FALSE
  /\ b_running = FALSE
  /\ bpc = "idle"
  /\ sigpc = [i \in 1..MaxSignals |-> "none"]
  /\ bCleanStarted = 0
  /\ bCleanDone = 0
  /\ bIters = 0

\* whether the class of the user socket has a method start(): BaseWebSocket
\* defines connect, disconnect, _run, _wait_and_backoff, _process_message and
\* send, and UserWebSocket adds none of that name
HasStart == FALSE

\* UserWebSocket.connect(on_fill, on_order): the callbacks are stored, then
\* `await self.start()`; looking up a missing attribute raises AttributeError
\* before anything is started
UConnect ==
  /\ u_on_fill' = "set"
  /\ IF HasStart
     THEN u_running' = TRUE /\ UNCHANGED uRaised
     ELSE uRaised' = TRUE /\ UNCHANGED u_running
  /\ UNCHANGED <<tvars, kvars, pvars, hvars, evars, bvars>>

\* ======================================================================
\* BaseBot
\* ======================================================================

Signals == 1..MaxSignals

\* the first await of an iteration of the main loop: _on_rollover when the
\* interval boundary moved since the last iteration, _tick otherwise
LoopEntry == {"rollover", "tick"}

\* run(): the signal handlers are installed and start() awaits _setup
BRun ==
  /\ bpc = "idle"
  /\ bpc' = "setup"
  /\ UNCHANGED <<b_running, sigpc, bCleanStarted, bCleanDone>>
  /\ UNCHANGED <<bIters, uvars, hvars, evars, tvars, kvars, pvars>>

\* _setup returns: `self._running = True`, and the loop is entered
BSetupDone ==
  /\ bpc = "setup"
  /\ b_running' = TRUE
  /\ bpc' = "tick"
  /\ bIters' = 1
  /\ UNCHANGED <<sigpc, bCleanStarted, bCleanDone>>
  /\ UNCHANGED <<uvars, hvars, evars, tvars, kvars, pvars>>

\* _on_rollover returns and _tick is awaited
BRolloverDone ==
  /\ bpc = "rollover"
  /\ bpc' = "tick"
  /\ UNCHANGED <<b_running, sigpc, bCleanStarted, bCleanDone>>
  /\ UNCHANGED <<bIters, uvars, hvars, evars, tvars, kvars, pvars>>

\* _tick returns and asyncio.sleep(self.tick_interval) is awaited
BTickDone ==
  /\ bpc = "tick"
  /\ bpc' = "sleep"
  /\ UNCHANGED <<b_running, sigpc, bCleanStarted, bCleanDone>>
  /\ UNCHANGED <<bIters, uvars, hvars, evars, tvars, kvars, pvars>>

\* _on_rollover or _tick raises: `except Exception` logs and sleeps a second
BTickRaise ==
  /\ bpc \in LoopEntry
  /\ bpc' = "errsleep"
  /\ UNCHANGED <<b_running, sigpc, bCleanStarted, bCleanDone>>
  /\ UNCHANGED <<bIters, uvars, hvars, evars, tvars, kvars, pvars>>

\* a sleep of the loop ends and `while self._running` is tested: another
\* iteration, or start() returns and the `finally` of run() awaits stop(),
\* which returns at once because self._running is false
BSleepDone ==
  /\ bpc \in {"sleep", "errsleep"}
  /\ IF b_running
     THEN bIters < MaxIters /\ bIters' = bIters + 1 /\ bpc' \in LoopEntry
     ELSE bIters' = bIters /\ bpc' = "returned"
  /\ UNCHANGED <<b_running, sigpc, bCleanStarted, bCleanDone>>
  /\ UNCHANGED <<uvars, hvars, evars, tvars, kvars, pvars>>

\* a signal arrives while run() is in progress: _signal_handler wraps a
\* stop() call in a new task
BSignal(i) ==
  /\ bpc \notin {"idle", "returned"}
  /\ sigpc[i] = "none"
  /\ sigpc' = [sigpc EXCEPT ![i] = "pending"]
  /\ UNCHANGED <<b_running, bpc, bCleanStarted, bCleanDone>>
  /\ UNCHANGED <<bIters, uvars, hvars, evars, tvars, kvars, pvars>>

\* the stop() task of a signal runs: `if not self._running: return`;
\* otherwise the flag is cleared and _cleanup is awaited
BStopStart(i) ==
  /\ bpc # "returned"
  /\ sigpc[i] = "pending"
  /\ IF b_running
     THEN /\ b_running' = FALSE
          /\ sigpc' = [sigpc EXCEPT ![i] = "cleanup"]
          /\ bCleanStarted' = bCleanStarted + 1
     ELSE /\ sigpc' = [sigpc EXCEPT ![i] = "done"]
          /\ UNCHANGED <<b_running, bCleanStarted>>
  /\ UNCHANGED <<bpc, bCleanDone>>
  /\ UNCHANGED <<bIters, uvars, hvars, evars, tvars, kvars, pvars>>

\* _cleanup returns in the stop() task of a signal
BCleanupDone(i) ==
  /\ bpc # "returned"
  /\ sigpc[i] = "cleanup"
  /\ sigpc' = [sigpc EXCEPT ![i] = "done"]
  /\ bCleanDone' = bCleanDone + 1
  /\ UNCHANGED <<b_running, bpc, bCleanStarted>>
  /\ UNCHANGED <<bIters, uvars, hvars, evars, tvars, kvars, pvars>>

NextBot ==
  \/ BRun
  \/ BSetupDone
  \/ BRolloverDone
  \/ BTickDone
  \/ BTickRaise
  \/ BSleepDone
  \/ \E i \in Signals : BSignal(i)
  \/ \E i \in Signals : BStopStart(i)
  \/ \E i \in Signals : BCleanupDone(i)

\* ---- the callers
\* One caller that awaits each call before it makes the next one ...
CallConnect == dpc = "idle" /\ (ConnectAlready \/ ConnectStart)
CallSubscribe == dpc = "idle" /\ \E m \in Markets : Subscribe(m)
CallUnsubscribe == dpc = "idle" /\ \E m \in Markets : Unsubscribe(m)
\* ... and a second caller whose connect() overlaps a pending disconnect()
OverlapConnect == dpc # "idle" /\ (ConnectAlready \/ ConnectStart)

\* the connect loop, the disconnect() coroutine and the network
Transport ==
  \/ DisconnectBegin
  \/ DisconnectClosed
  \/ DisconnectWaitDone
  \/ DisconnectTimeout
  \/ DisconnectCancel
  \/ \E t \in Tasks : ConnectOK(t)
  \/ \E t \in Tasks : ConnectFail(t)
  \/ \E t \in Tasks : RecvEndOK(t)
  \/ \E t \in Tasks : RecvEndErr(t)
  \/ \E t \in Tasks : SleepDone(t)
  \/ \E t \in Tasks : PeerClose(t)

Frames ==
  \/ \E t \in Tasks : Arrive(t)
  \/ \E t \in Tasks : RecvDispatch(t)
  \/ \E t \in Tasks : RecvBreak(t)
  \/ \E t \in Tasks : HandlerDone(t)

Subscriptions ==
  \/ CallSubscribe
  \/ CallUnsubscribe
  \/ \E t \in Tasks : OnConnectNext(t)

Init == TInit /\ KInitWith({"none"}) /\ PInit /\ XInit

\* the transport with inbound frames, one caller, no market subscribed
Next == CallConnect \/ Transport \/ Frames

Spec == Init /\ [][Next]_vars

\* the same with a second caller
NextOverlap == Next \/ OverlapConnect

SpecOverlap == Init /\ [][NextOverlap]_vars

\* the Predict.fun client with its subscription list, on a quiet stream
NextSub == CallConnect \/ Transport \/ Subscriptions

SpecSub == Init /\ [][NextSub]_vars

\* the Predict.fun client with one market and a caller of send()
SubscribeFirst == dpc = "idle" /\ Subscribe(1)

NextSend ==
  \/ CallConnect
  \/ Transport
  \/ \E t \in Tasks : OnConnectNext(t)
  \/ SubscribeFirst
  \/ Send

SpecSend == Init /\ [][NextSend]_vars

\* the transport on a stream with frames of every kind
NextFrames ==
  \/ CallConnect
  \/ Transport
  \/ \E t \in Tasks : Arrive(t)
  \/ \E t \in Tasks : RecvDispatch(t)
  \/ \E t \in Tasks : RecvBreak(t)
  \/ \E t \in Tasks, kind \in FrameKinds : ProcessMessage(t, kind)

SpecFrames == Init /\ [][NextFrames]_vars

\* the Predict.fun client with its heartbeat, on a quiet stream
NextHeartbeat ==
  \/ CallConnect
  \/ Transport
  \/ HeartbeatPing
  \/ \E t \in Tasks : Pong(t)

SpecHeartbeat == Init /\ [][NextHeartbeat]_vars

\* ---- the heartbeat tasks of the Predict.fun client

\* the number of heartbeat loops alive
BeatsAlive == hbOld + (IF hbCur THEN 1 ELSE 0)

\* a connection comes up in the Predict.fun client: _on_connect stores a new
\* heartbeat task in self._heartbeat_task, and the task stored there before,
\* which nothing cancelled, runs on
BeatConnectOK(t) ==
  /\ hbOld < MaxBeats
  /\ ConnectOKT(t)
  /\ hbCur' = TRUE
  /\ hbOld' = BeatsAlive
  /\ UNCHANGED <<uvars, evars, bvars, kvars, pvars>>

\* OrderbookWebSocket.disconnect(): the task in self._heartbeat_task is
\* cancelled and awaited, the field is cleared, then super().disconnect()
BeatDisconnect ==
  /\ DisconnectBeginT
  /\ hbCur' = FALSE
  /\ UNCHANGED <<hbOld, uvars, evars, bvars, kvars, pvars>>

\* a heartbeat loop wakes from its sleep, pings if the connection is open, and
\* finds `while self.running` false
BeatExitCur ==
  /\ ~running
  /\ hbCur
  /\ hbCur' = FALSE
  /\ UNCHANGED <<hbOld, uvars, evars, bvars, tvars, kvars, pvars>>

BeatExitOld ==
  /\ ~running
  /\ hbOld > 0
  /\ hbOld' = hbOld - 1
  /\ UNCHANGED <<hbCur, uvars, evars, bvars, tvars, kvars, pvars>>

NextBeats ==
  \/ CallConnect
  \/ \E t \in Tasks : BeatConnectOK(t)
  \/ BeatDisconnect
  \/ BeatExitCur
  \/ BeatExitOld
  \/ DisconnectClosed
  \/ DisconnectWaitDone
  \/ DisconnectTimeout
  \/ DisconnectCancel
  \/ \E t \in Tasks : ConnectFail(t)
  \/ \E t \in Tasks : RecvEndOK(t)
  \/ \E t \in Tasks : RecvEndErr(t)
  \/ \E t \in Tasks : SleepDone(t)
  \/ \E t \in Tasks : PeerClose(t)

SpecBeats == Init /\ [][NextBeats]_vars

\* the Polymarket exchange client: its orderbook socket on the transport, and
\* subscribe_fills, which makes a user socket and awaits its connect()
NextUser == Next \/ UConnect

SpecUser == Init /\ [][NextUser]_vars

\* the Predict.fun client with subscriptions made by one caller, on a stream
\* with inbound frames
NextHook ==
  \/ CallConnect
  \/ Transport
  \/ Frames
  \/ CallSubscribe
  \/ \E t \in Tasks : OnConnectNext(t)

SpecHook == Init /\ [][NextHook]_vars

\* ---- the Kalshi client
\* frames the life-cycle specification draws from: one of each kind
KSampleMsgs ==
  { [type |-> "orderbook_snapshot", ticker |-> "KXBTC",
     yes |-> [p \in {40} |-> 1], no |-> EmptyDict],
    [type |-> "orderbook_delta", ticker |-> "KXBTC", side |-> "yes",
     price |-> 40, delta |-> 1],
    OtherMsg }

KLifeCycle ==
  \/ KConnectBegin
  \/ KConnectOK
  \/ KConnectFail
  \/ KConnectSubscribed
  \/ \E i \in KSlots : KRecvBreak(i)
  \/ \E i \in KSlots : KStreamEnd(i)
  \/ \E i \in KSlots : KPeerClose(i)
  \/ KRunCallback
  \/ KCloseBegin
  \/ KCloseEnd
  \/ KCloseNow

NextKalshi ==
  \/ KLifeCycle
  \/ \E i \in KSlots, m \in KSampleMsgs : KRecvMsg(i, m)
  \/ \E i \in KSlots, m \in KSampleMsgs : KRecvLast(i, m)

InitKalshi == TInit /\ KInitWith({"none", "sync", "async"}) /\ PInit /\ XInit

SpecKalshi == InitKalshi /\ [][NextKalshi]_vars

\* the book handlers on every frame of the feed, on the first connection
KAllMsgs == SnapshotMsgs(FeedPrices) \cup DeltaMsgs(FeedPrices) \cup {OtherMsg}

KFirstConnect == k_ws = None /\ KConnectBegin

NextKalshiBook ==
  \/ KFirstConnect
  \/ KConnectOK
  \/ KConnectSubscribed
  \/ \E i \in KSlots, m \in KAllMsgs : KRecvMsg(i, m)

SpecKalshiBook == Init /\ [][NextKalshiBook]_vars

\* the same handlers on a feed whose prices are the two ends of the cent
\* scale, 0 and 100
EdgePrices == {0, 100}
KEdgeMsgs == SnapshotMsgs(EdgePrices) \cup DeltaMsgs(EdgePrices) \cup {OtherMsg}

NextKalshiEdge ==
  \/ KFirstConnect
  \/ KConnectOK
  \/ KConnectSubscribed
  \/ \E i \in KSlots, m \in KEdgeMsgs : KRecvMsg(i, m)

SpecKalshiEdge == Init /\ [][NextKalshiEdge]_vars

\* ---- the Polymarket client: the book handlers on every frame of the feed
PFirstConnect == task = None /\ ConnectStart

NextPolymarket ==
  \/ PFirstConnect
  \/ \E t \in Tasks : ConnectOK(t)
  \/ \E t \in Tasks, m \in PAllMsgs : PHandleMessage(t, m)

SpecPolymarket == Init /\ [][NextPolymarket]_vars

\* ---- the Polymarket client on a feed that may carry a bad number
NextPolyErrors ==
  \/ PFirstConnect
  \/ \E t \in Tasks : ConnectOK(t)
  \/ \E t \in Tasks, m \in RawMsgs : PProcessMessage(t, m)

SpecPolyErrors == Init /\ [][NextPolyErrors]_vars

\* ---- a bot and the signals it receives
SpecBot == Init /\ [][NextBot]_vars

\* ---- starting and stopping: the reconnecting transport and the Kalshi
\* client side by side, on a Kalshi stream that carries no frames and with
\* handshakes that succeed (a failed one leaves the Kalshi client as it was)
NextStop ==
  \/ Next
  \/ KConnectBegin
  \/ KConnectOK
  \/ KConnectSubscribed
  \/ \E i \in KSlots : KRecvBreak(i)
  \/ \E i \in KSlots : KStreamEnd(i)
  \/ \E i \in KSlots : KPeerClose(i)
  \/ KCloseBegin
  \/ KCloseEnd
  \/ KCloseNow

SpecStop == Init /\ [][NextStop]_vars

\* ---- the Polymarket client with a reader task: frames for one token,
\* handled statement by statement
PReadMsgs == {m \in PAllMsgs : m.asset_id = "tokenA"}

\* ---- repeated snapshots: both book clients on the frames of one instrument
KRepeatMsgs ==
  {m \in KAllMsgs : /\ m.type # "other"
                    /\ m.ticker = "KXBTC"
                    /\ (m.type = "orderbook_snapshot" => m.no = EmptyDict)
                    /\ (m.type = "orderbook_delta" => m.side = "yes" /\ m.price = 40 /\ m.delta = 1)}
PRepeatMsgs ==
  {m \in PReadMsgs : m.event_type = "price_change" =>
                       (m.best_bid = Some("0.60") /\ m.best_ask = NoneV)}

NextSnapshots ==
  \/ KFirstConnect
  \/ KConnectOK
  \/ KConnectSubscribed
  \/ \E i \in KSlots, m \in KRepeatMsgs : KRecvMsg(i, m)
  \/ PFirstConnect
  \/ \E t \in Tasks : ConnectOK(t)
  \/ \E t \in Tasks, m \in PRepeatMsgs : PHandleMessage(t, m)

SpecSnapshots == Init /\ [][NextSnapshots]_vars

InitPolyRead ==
  TInit /\ KInitWith({"none"}) /\ PInitWith({"none", "sync", "async"}) /\ XInit

NextPolyRead ==
  \/ PFirstConnect
  \/ \E t \in Tasks : ConnectOK(t)
  \/ \E t \in Tasks, m \in PReadMsgs : PBegin(t, m)
  \/ PWriteBids
  \/ PWriteAsks
  \/ PCallbackDone
  \/ PGetBidAsk("tokenA")

SpecPolyRead == InitPolyRead /\ [][NextPolyRead]_vars

\* ---- the Polymarket client over the reconnecting transport
NextPolyReconnect ==
  \/ CallConnect
  \/ DisconnectBegin
  \/ DisconnectClosed
  \/ DisconnectWaitDone
  \/ DisconnectTimeout
  \/ DisconnectCancel
  \/ \E t \in Tasks : PConnectOK(t)
  \/ \E t \in Tasks : ConnectFail(t)
  \/ \E t \in Tasks : RecvEndOK(t)
  \/ \E t \in Tasks : RecvEndErr(t)
  \/ \E t \in Tasks : SleepDone(t)
  \/ \E t \in Tasks : PeerClose(t)
  \/ \E t \in Tasks, m \in PReadMsgs : PHandleMessage(t, m)

SpecPolyReconnect == Init /\ [][NextPolyReconnect]_vars

\* ======================================================================
\* Properties
\* ======================================================================

RECURSIVE Pow2(_)
Pow2(n) == IF n = 0 THEN 1 ELSE 2 * Pow2(n - 1)

\* the wait the k-th consecutive failure is due: min(d * 2^(k-1), 30)
ExpectedWait(k) == Min(INITIAL_RETRY_DELAY * Pow2(k - 1), MAX_RETRY_DELAY)

\* C1: the k-th consecutive failed attempt since the last success (or since
\* connect()) is followed by a wait of min(1 * 2^(k-1), 30) seconds.
C1_BackoffSequence == fails > 0 => lastWait = ExpectedWait(fails)

\* C2: once a connection is up and its _on_connect pass is over, the server
\* has been sent subscribe requests for exactly the current subscription set.
C2_ResubscribesCurrentSet ==
  \A t \in Tasks :
    (running /\ ws = t /\ tpc[t] \in {"recv", "handling"} /\ connState[t] = "open")
      => srvSub[t] = SeqToSet(subscribed)

\* C3: no transport-level error terminates the receive loop; only an explicit
\* stop does.  For the Kalshi client: no _handle_messages task has returned
\* because its peer closed the connection.
C3_OnlyStopEndsLoop == \A i \in KSlots : ktpc[i] # "ended"

\* C4: once stop has returned, no callback is invoked.  For the Kalshi client:
\* no on_update callback has run after close() returned.
C4_NoCallbackAfterStop == ~kLate


\* C5: whatever the interleaving of connect() and disconnect() calls, at most
\* one connect-loop task is alive and at most one connection is open.
C5_OneLoopOneConnection ==
  /\ Cardinality({t \in Tasks : tpc[t] \notin {"unborn", "done"}}) <= 1
  /\ Cardinality({t \in Tasks : connState[t] = "open"}) <= 1

\* C6: the frames of a connection reach the handler exactly once each and in
\* arrival order: what was dispatched, followed by what still waits, is the
\* arrival sequence, and every dispatch but one in progress has completed.
C6_ExactlyOnceInOrder ==
  \A t \in Tasks :
    /\ delivered[t] \o inbox[t] = [i \in 1..arrivedN[t] |-> i]
    /\ ndone[t] = IF tpc[t] = "handling" THEN Len(delivered[t]) - 1 ELSE Len(delivered[t])

\* every frame of a connection arrived, was dispatched and handled
C6_AllFramesHandled ==
  \E t \in Tasks : Len(delivered[t]) = MaxFrames /\ ndone[t] = MaxFrames

\* C7: a snapshot replaces the whole stored state of its instrument; a side
\* that is empty in the snapshot has no best price afterwards.  For the
\* Polymarket client: after a book message with no bids (asks) the token has
\* no best bid (ask).
C7_SnapshotReplaces ==
  pLastMsg.event_type = "book" =>
    /\ (pLastMsg.bids = {} => pLastMsg.asset_id \notin DOMAIN p_bids)
    /\ (pLastMsg.asks = {} => pLastMsg.asset_id \notin DOMAIN p_asks)

\* the prices of a side that hold a positive quantity
LivePrices(side) == {p \in DOMAIN side : side[p] > 0}

\* C8: a delta (ticker, side, price, d) on an existing Kalshi book sets the
\* level to old + d (absent counted as 0) and removes it when old + d <= 0;
\* every other level of the book and every other book is unchanged; the best
\* bid of the side is then the highest price that still holds quantity, or
\* None when there is none.  It holds on a feed priced within 1..99 cents
\* (SpecKalshiBook) and fails at the price 0 (SpecKalshiEdge).
C8_DeltaApplication ==
  [][ ( /\ kmsgs' = kmsgs + 1
        /\ kLastMsg'.type = "orderbook_delta"
        /\ kLastMsg'.ticker \in DOMAIN k_orderbooks )
      => LET m == kLastMsg'
             old == k_orderbooks[m.ticker]
             new == k_orderbooks'[m.ticker]
             q == (IF m.price \in DOMAIN old[m.side] THEN old[m.side][m.price] ELSE 0) + m.delta
             other == CHOOSE sd \in Sides : sd # m.side
             best == IF m.side = "yes" THEN k_prices'[m.ticker].yes_bid
                                      ELSE k_prices'[m.ticker].no_bid
         IN  /\ DOMAIN k_orderbooks' = DOMAIN k_orderbooks
             /\ \A tk \in DOMAIN k_orderbooks \ {m.ticker} :
                  /\ k_orderbooks'[tk] = k_orderbooks[tk]
                  /\ k_prices'[tk] = k_prices[tk]
             /\ new[other] = old[other]
             /\ DOMAIN new[m.side] \ {m.price} = DOMAIN old[m.side] \ {m.price}
             /\ \A p \in DOMAIN old[m.side] \ {m.price} : new[m.side][p] = old[m.side][p]
             /\ IF q > 0
                THEN m.price \in DOMAIN new[m.side] /\ new[m.side][m.price] = q
                ELSE m.price \notin DOMAIN new[m.side]
             /\ best = IF LivePrices(new[m.side]) = {}
                       THEN NoneV
                       ELSE Some(MaxOf(LivePrices(new[m.side])))
    ]_vars

\* C9: every level stored in a book has a strictly positive quantity.
C9_PositiveLevels ==
  \A tk \in DOMAIN k_orderbooks : \A sd \in Sides :
    \A p \in DOMAIN k_orderbooks[tk][sd] : k_orderbooks[tk][sd][p] > 0

\* C10: a delta for a ticker that has no book brings no book and no best
\* prices into existence.
C10_NoBookFromDelta ==
  [][ (kmsgs' = kmsgs + 1 /\ kLastMsg'.type = "orderbook_delta")
      => /\ DOMAIN k_orderbooks' = DOMAIN k_orderbooks
         /\ DOMAIN k_prices' = DOMAIN k_prices ]_vars

\* C11: in every state the best bid reported for a side of a Kalshi book is
\* the highest price of that side holding a positive quantity, and None
\* exactly when there is no such price; the prices 0 and 100 included.
C11_BestPriceIsMax ==
  \A tk \in DOMAIN k_prices :
    /\ k_prices[tk].yes_bid =
         IF LivePrices(k_orderbooks[tk].yes) = {} THEN NoneV
         ELSE Some(MaxOf(LivePrices(k_orderbooks[tk].yes)))
    /\ k_prices[tk].no_bid =
         IF LivePrices(k_orderbooks[tk].no) = {} THEN NoneV
         ELSE Some(MaxOf(LivePrices(k_orderbooks[tk].no)))

\* C12: whatever a reader in another task gets from get_bid_ask() while
\* frames are being applied is the (bid, ask) pair of the state some whole
\* mutation step left (or of the initial state), never a mix of two steps.
C12_ReadsWholeSteps ==
  pSeen # NoneV =>
    \E h \in pHist :
      TheV(pSeen) = <<DictOpt(h.bids, "tokenA"), DictOpt(h.asks, "tokenA")>>

\* a reader ran while the handler was suspended in the on_update coroutine
\* of a frame that changed both sides
C12_ReadDuringCallback ==
  /\ ppc = "callback"
  /\ pSeen = Some(GetBidAsk("tokenA"))
  /\ pmsgs >= 2
  /\ pCur.event_type = "price_change"
  /\ pCur.best_bid # NoneV /\ pCur.best_ask # NoneV
  /\ Cardinality(pHist) >= 3

\* C13: a transport reconnect leaves the stored book state as it is: every
\* step that applies no frame (a drop, a backoff wait, a handshake, the
\* _on_connect of the new connection) leaves bids, asks and sizes unchanged.
C13_ReconnectKeepsBooks ==
  [][ pmsgs' = pmsgs =>
        <<p_bids, p_asks, p_bid_sizes, p_ask_sizes>>' =
        <<p_bids, p_asks, p_bid_sizes, p_ask_sizes>> ]_vars

\* a connection came up after frames had been applied, and the book of the
\* token is still there
C13_ReconnectedWithBook ==
  /\ pConnAt > 0
  /\ pmsgs = pConnAt
  /\ \E t \in Tasks : tpc[t] = "recv" /\ connState[t] = "open" /\ ws = t
  /\ "tokenA" \in DOMAIN p_bids /\ "tokenA" \in DOMAIN p_asks

\* C14: every quote read exposes the time of the last frame applied to the
\* instrument (frames are stamped 1, 2, ... in arrival order), and the stamp
\* stays the same across drops and reconnects until the next frame.
C14_TimestampOfLastUpdate ==
  pmsgs > 0 => GetOrderbook(pLastMsg.asset_id).timestamp = Some(pmsgs)

\* C15: when disconnect() is called while the connect loop sleeps in backoff
\* or waits for a handshake, the loop starts no further connection attempt
\* (an attempt starts only on a running client), and the loop has ended by
\* the time disconnect() has returned.
C15_StopEndsWaitingLoop ==
  [][ dWhen' \in {"sleeping", "connecting"} =>
        /\ \A t \in Tasks :
             (tpc[t] # "connecting" /\ tpc'[t] = "connecting") => running'
        /\ (dpc' = "idle" /\ ~running') =>
             \A t \in Tasks : tpc'[t] \in {"unborn", "done"} ]_vars

\* disconnect() was called during a backoff sleep longer than its own wait,
\* and has returned
C15_StoppedDuringLongSleep ==
  /\ dWhen = "sleeping"
  /\ lastWait > WAIT_TIMEOUT
  /\ dpc = "idle"
  /\ ~running
  /\ task = None
  /\ \E t \in Tasks : tpc[t] = "done"

\* the state a stop leaves: not running, no task, no open connection
Stopped ==
  /\ ~running
  /\ task = None
  /\ ~IsConnected
  /\ \A t \in Tasks : tpc[t] \in {"unborn", "done"}

KStopped ==
  /\ ~k_running
  /\ (IF k_ws = None THEN TRUE ELSE kconn[k_ws] # "open")
  /\ (IF k_task = None THEN TRUE ELSE ktpc[k_task] # "recv")

\* C16: the stop is idempotent.  When disconnect() has returned the client is
\* stopped, and on a stopped client (after a stop, or never connected) every
\* step that is not part of a connect() -- the steps of another disconnect() / close()
\* among them -- leaves it stopped, with the same task and connection
\* fields; nothing in either stop raises.
C16_StopIdempotent ==
  [][ /\ (dpc' = "idle" /\ ~running') => Stopped'
      /\ (Stopped /\ ~running') => (Stopped' /\ task' = task /\ tpc' = tpc)
      /\ (kClosed' /\ kcall' = "idle" /\ ~k_running') => KStopped'
      /\ (KStopped /\ kcall \in {"idle", "closing"} /\ ~k_running') =>
           (KStopped' /\ k_ws' = k_ws /\ k_task' = k_task) ]_vars

\* a second disconnect() found nothing to stop and has returned, and a Kalshi
\* client was closed and is stopped
C16_StoppedTwice ==
  /\ dWhen = "nothing"
  /\ dpc = "idle"
  /\ Stopped
  /\ \E t \in Tasks : tpc[t] = "done"
  /\ kClosed
  /\ KStopped
  /\ \E i \in KSlots : ktpc[i] = "stopped"

\* C17: connect() never surfaces a network error to its caller: no connect()
\* call ends with the exception of a refused or failed handshake.
C17_ConnectNeverRaises == ~kRaised

\* C18: a send() without an active connection is a no-op: it transmits
\* nothing (its outcome is "skipped" or a logged "error", never "sent") and
\* leaves running, the retry delay, the subscription list, the connection
\* and task fields, the loop and all book state unchanged.
C18_SendWithoutConnection ==
  [][ (Len(sendLog') > Len(sendLog) /\ ~IsConnected) =>
        /\ sendLog'[Len(sendLog')] # "sent"
        /\ UNCHANGED <<running, retry_delay, subscribed, ws, task, tpc, twait,
                       connState, srvSub, subFrames, fails>>
        /\ UNCHANGED <<xvars, kvars, pvars>> ]_vars

\* send() was called on a connection object that had already been dropped,
\* and with no connection object at all
C18_SentIntoTheVoid ==
  /\ Len(sendLog) = 2
  /\ sendLog[1] = "error"
  /\ sendLog[2] = "skipped"
  /\ subscribed # << >>

\* C19: a frame that is not valid JSON, has an unknown type or makes its
\* handler raise is discarded without ending the session: the step that ends
\* its handling leaves the task in the receive loop of the same connection,
\* in the state it had, with no failure counted, no backoff started and the
\* frames behind it still queued.
C19_BadFrameKeepsSession ==
  [][ \A t \in Tasks :
        Len(handledKinds'[t]) > Len(handledKinds[t]) =>
          /\ tpc'[t] = "recv"
          /\ ndone'[t] = ndone[t] + 1
          /\ connState'[t] = connState[t]
          /\ inbox'[t] = inbox[t]
          /\ UNCHANGED <<running, ws, task, retry_delay, fails, twait>> ]_vars

\* a frame whose handler raised and a frame that was not JSON were handled,
\* and the task is back in the receive loop of the open connection
C19_GoodAfterBad ==
  \E t \in Tasks :
    /\ handledKinds[t] = <<"raises", "bad_json">>
    /\ delivered[t] = <<1, 2>>
    /\ ndone[t] = 2
    /\ tpc[t] = "recv"
    /\ connState[t] = "open"
    /\ ws = t
    /\ fails = 0

\* C20: a ping that gets no pong within its timeout ends the connection: by
\* the time the heartbeat loop sends its next ping the timeout of the last
\* one is over, so an open connection never carries two unanswered pings.
C20_UnansweredPingEndsConnection ==
  \A t \in Tasks : connState[t] = "open" => pings[t] <= 1

\* the best bid and ask of both sides as get_prices(tk) reports them
KQuote(prices, tk) ==
  IF tk \in DOMAIN prices
  THEN <<prices[tk].yes_bid, prices[tk].yes_ask, prices[tk].no_bid, prices[tk].no_ask>>
  ELSE <<NoneV, NoneV, NoneV, NoneV>>

\* C21: on_update is fired after exactly those frames that change a derived
\* best bid or best ask: with a coroutine callback, the step that handles a
\* frame schedules a notification if and only if the quote of some ticker
\* differs after it.
C21_NotifiesOnChangeOnly ==
  [][ (kmsgs' = kmsgs + 1 /\ kOnUpdate = "async") =>
        ((kPending' > kPending) <=>
           (\E tk \in Tickers : KQuote(k_prices', tk) # KQuote(k_prices, tk))) ]_vars

\* C22: a snapshot is idempotent: the step that handles a snapshot equal to
\* the frame handled just before it leaves the stored books and the derived
\* best prices and sizes as they were (Kalshi orderbook_snapshot, Polymarket
\* book).
C22_SnapshotIdempotent ==
  [][ /\ (kmsgs' = kmsgs + 1 /\ kDup' /\ kLastMsg'.type = "orderbook_snapshot") =>
           (k_orderbooks' = k_orderbooks /\ k_prices' = k_prices)
      /\ (pmsgs' = pmsgs + 1 /\ pDup' /\ pLastMsg'.event_type = "book") =>
           <<p_bids, p_asks, p_bid_sizes, p_ask_sizes>>' =
           <<p_bids, p_asks, p_bid_sizes, p_ask_sizes>> ]_vars

\* both clients have just handled a snapshot with levels for the second time
\* in a row
C22_SnapshotRepeated ==
  /\ kDup /\ kLastMsg.type = "orderbook_snapshot"
  /\ \E p \in DOMAIN kLastMsg.yes : kLastMsg.yes[p] > 0
  /\ k_prices["KXBTC"].yes_bid # NoneV
  /\ pDup /\ pLastMsg.event_type = "book"
  /\ pLastMsg.bids # {} /\ pLastMsg.asks = {}
  /\ "tokenA" \in DOMAIN p_bids

\* C23: UserWebSocket.connect(on_fill, on_order) registers the callbacks and
\* starts the connect loop: once it was called the callbacks are set, the
\* client is running, and the call (and so subscribe_fills) raised nothing.
C23_UserConnectStarts ==
  u_on_fill = "set" => (u_running /\ ~uRaised)

\* C24: between two consecutive connection attempts of a running client there
\* is a wait of the current retry delay: a loop that goes on to its next
\* attempt comes out of the backoff sleep, and slept retry_delay.
C24_WaitBetweenAttempts ==
  [][ \A t \in Tasks :
        (tpc'[t] = "connecting" /\ tpc[t] \notin {"connecting", "unborn", "done"}) =>
          (tpc[t] = "sleeping" /\ twait[t] = retry_delay) ]_vars

\* C25: _on_connect is invoked exactly once per successful connection, the
\* first included, and is over before a frame of that connection is
\* dispatched: the step that opens a connection starts the hook (with nothing
\* to resubscribe it is over at once), the hook starts in no other step, and
\* a frame is taken only by a task whose hook has run to its end.
C25_HookOncePerConnection ==
  [][ \A t \in Tasks :
        /\ (connState[t] # "open" /\ connState'[t] = "open") =>
             (tpc'[t] = "on_connect" \/ (subscribed = << >> /\ tpc'[t] = "recv"))
        /\ (tpc[t] # "on_connect" /\ tpc'[t] = "on_connect") =>
             (connState[t] # "open" /\ connState'[t] = "open")
        /\ (Len(delivered'[t]) > Len(delivered[t])) =>
             (tpc[t] = "recv" /\ subIdx[t] = 1) ]_vars

\* a frame was dispatched on a connection whose hook had resubscribed two
\* markets
C25_FrameAfterResubscribe ==
  \E t \in Tasks :
    /\ Len(subscribed) = 2
    /\ connState[t] = "open"
    /\ subFrames[t][subscribed[1]] = 1
    /\ subFrames[t][subscribed[2]] = 1
    /\ Len(delivered[t]) >= 1
    /\ tpc[t] = "handling"

\* C26: the resubscription pass never sees the subscription list half
\* updated: when the pass of a connection ends, every market then in the list
\* has had exactly one subscribe frame sent on that connection.
C26_PassSendsEachOnce ==
  [][ \A t \in Tasks :
        (tpc[t] = "on_connect" /\ tpc'[t] = "recv") =>
          \A m \in SeqToSet(subscribed') : subFrames'[t][m] = 1 ]_vars

\* C27: in the Predict.fun client at most one heartbeat loop is alive at any
\* time, whatever the number of reconnects and of disconnect()/connect() pairs.
C27_OneHeartbeatLoop == BeatsAlive <= 1

\* C28: a non-empty side returned by the Polymarket get_orderbook(token) is
\* a (price, size) pair the feed reported together: when a frame moves the
\* best price of a side that has a size, the size returned with the new price
\* is the one that frame carries at that price, never the size kept from the
\* earlier book message.
C28_SizeBelongsToPrice ==
  [][ pmsgs' = pmsgs + 1 =>
        \A a \in Assets :
          /\ (a \in DOMAIN p_bids /\ a \in DOMAIN p_bid_sizes /\ p_bids'[a] # p_bids[a]) =>
               /\ pLastMsg'.event_type = "book"
               /\ \E lv \in pLastMsg'.bids :
                    GetOrderbook(a)'.bids[1] = <<FloatPrice(lv.price), FloatSize(lv.size)>>
          /\ (a \in DOMAIN p_asks /\ a \in DOMAIN p_ask_sizes /\ p_asks'[a] # p_asks[a]) =>
               /\ pLastMsg'.event_type = "book"
               /\ \E lv \in pLastMsg'.asks :
                    GetOrderbook(a)'.asks[1] = <<FloatPrice(lv.price), FloatSize(lv.size)>> ]_vars

\* C29: a frame whose handling raises leaves the cached market state as it
\* was before the frame was dispatched: nothing of a frame that is discarded
\* as an error is retained.
C29_FailedFrameLeavesState ==
  [][ (pmsgs' = pmsgs + 1 /\ pRaised') =>
        <<p_bids, p_asks, p_bid_sizes, p_ask_sizes>>' =
          <<p_bids, p_asks, p_bid_sizes, p_ask_sizes>> ]_vars

\* C30: a shutdown signal that arrives at any point after run() began, also
\* during _setup or during a _tick, stops the main loop: once the stop() call
\* of a signal has returned the bot is not running; and when run() has
\* returned after a signal, _cleanup was executed exactly once and has
\* completed.
C30_GracefulShutdown ==
  /\ \A i \in Signals : sigpc[i] = "done" => ~b_running
  /\ (bpc = "returned" /\ \E i \in Signals : sigpc[i] # "none") =>
       (bCleanStarted = 1 /\ bCleanDone = 1)
====
